---------------------------- MODULE Spec2Model ----------------------------
(***************************************************************************)
(* A model of one run of the packaging manifest setup.py of sempler:       *)
(*   python setup.py <command>                                             *)
(* The run imports setup from distutils.core, evaluates the keyword        *)
(* arguments of the call in source order (one of them opens and reads      *)
(* README.txt), enters setup(), which builds the distribution object from  *)
(* the arguments, and runs the command.                                    *)
(*                                                                         *)
(* Strings the properties have to parse (name, version, package names,     *)
(* requirement specifiers) are sequences of one-character strings; the     *)
(* other literals are opaque TLA+ strings.  The bytes of README.txt are    *)
(* drawn from a four-letter alphabet: an ordinary character, CR, LF and a  *)
(* byte that is invalid in the locale's encoding.                          *)
(***************************************************************************)
EXTENDS Integers, Sequences, FiniteSets, TLC

VARIABLES pc, argi, attrs, fh, exc, setupCalled, dist, result,
          cwd, fs, distutilsImpl, argv, pkgDirs

vars == <<pc, argi, attrs, fh, exc, setupCalled, dist, result,
          cwd, fs, distutilsImpl, argv, pkgDirs>>

env == <<cwd, fs, distutilsImpl, argv, pkgDirs>>

(***************************************************************************)
(* Bounds                                                                  *)
(***************************************************************************)
\* longest README.txt, in bytes
MaxLen == 2

(***************************************************************************)
(* The literals of the manifest                                            *)
(***************************************************************************)
name == <<"s","e","m","p","l","e","r">>

version_suffixed == <<"0",".","1",".","1","d","e","v">>

version == <<"0",".","1",".","1">>

packages_flat == << <<"s","e","m","p","l","e","r">>, <<"t","e","s","t">> >>

packages == << <<"s","e","m","p","l","e","r">>,
               <<"s","e","m","p","l","e","r",".","t","e","s","t">> >>

scripts_one == << <<"b","i","n","/","s","e","m","p","l","e","r">> >>

scripts == << >>

install_requires_ranged ==
    << <<"n","u","m","p","y",">","=","1",".","1","8",".","3">>,
       <<"n","e","t","w","o","r","k","x","=","=","2",".","2">>,
       <<"m","a","t","p","l","o","t","l","i","b","=","=","3",".","2",".","1">> >>

install_requires ==
    << <<"n","u","m","p","y","=","=","1",".","1","8",".","3">>,
       <<"n","e","t","w","o","r","k","x","=","=","2",".","2">>,
       <<"m","a","t","p","l","o","t","l","i","b","=","=","3",".","2",".","1">> >>

\* the keywords of the call, in source order
KwOrder == <<"name", "version", "author", "author_email", "packages",
             "scripts", "url", "license", "description",
             "long_description", "install_requires">>

\* the value of a keyword whose argument is a literal
Literal(k) ==
    CASE k = "name"             -> name
      [] k = "version"          -> version
      [] k = "author"           -> "Juan L Gamella"
      [] k = "author_email"     -> "juangamella@gmail.com"
      [] k = "packages"         -> packages
      [] k = "scripts"          -> scripts
      [] k = "url"              -> "http://pypi.python.org/pypi/sempler/"
      [] k = "license"          -> "LICENSE.txt"
      [] k = "description"      ->
             "Sample from general structural causal models (SCMs)"
      [] k = "install_requires" -> install_requires

(***************************************************************************)
(* The environment of a run                                                *)
(***************************************************************************)
\* the directory of setup.py, and some other directory
Dirs == {"project", "elsewhere"}

Byte == {"a", "CR", "LF", "XX"}

Contents == UNION {[1..n -> Byte] : n \in 0..MaxLen}

Missing == [state |-> "missing", bytes |-> <<>>]

Unreadable == [state |-> "unreadable", bytes |-> <<>>]

\* what README.txt, the file name given to open(), can be in the current
\* directory
Files == {Missing, Unreadable} \cup [state : {"ok"}, bytes : Contents]

\* what README.txt is in the directory the run is not started in
OtherFiles == {Missing, [state |-> "ok", bytes |-> <<"a", "LF">>]}

\* "stdlib": distutils of the standard library, its Distribution unpatched;
\* "setuptools": setuptools was imported first (pip, or the distutils shim
\* of setuptools) and has replaced distutils.core.Distribution by its own;
\* "absent": an interpreter without distutils
Impls == {"stdlib", "setuptools", "absent"}

Commands == {"sdist", "build", "install", "--version"}

(***************************************************************************)
(* open('README.txt').read()                                               *)
(***************************************************************************)
\* a relative path is resolved against the current directory
ResolveDir(c) == c

\* the exception open() raises on a file, "none" when it opens
OpenError(f) ==
    CASE f.state = "missing"    -> "FileNotFoundError"
      [] f.state = "unreadable" -> "PermissionError"
      [] OTHER                  -> "none"

\* text mode decodes with the locale's encoding
Decodable(b) == \A i \in 1..Len(b) : b[i] # "XX"

\* text mode with newline=None: CR LF and a lone CR are read as LF
RECURSIVE UniversalNewlines(_)
UniversalNewlines(b) ==
    IF b = <<>> THEN <<>>
    ELSE IF b[1] = "CR" /\ Len(b) >= 2 /\ b[2] = "LF"
         THEN <<"LF">> \o UniversalNewlines(SubSeq(b, 3, Len(b)))
    ELSE IF b[1] = "CR"
         THEN <<"LF">> \o UniversalNewlines(Tail(b))
    ELSE <<b[1]>> \o UniversalNewlines(Tail(b))

\* readline() in place of read(): the text up to the first line end
RECURSIVE FirstLine(_)
FirstLine(t) ==
    IF t = <<>> THEN <<>>
    ELSE IF t[1] = "LF" THEN <<"LF">>
    ELSE <<t[1]>> \o FirstLine(Tail(t))

ReadText_line(b) == FirstLine(UniversalNewlines(b))

\* read() with no size: the whole file, as text
ReadText(b) == UniversalNewlines(b)

(***************************************************************************)
(* distutils.core.setup                                                    *)
(***************************************************************************)
MetadataKeys == {"name", "version", "author", "author_email", "url",
                 "license", "description", "long_description"}

\* the options Distribution.__init__ has an attribute for
KnownOptions(impl) ==
    MetadataKeys \cup {"packages", "scripts"}
    \cup (IF impl = "setuptools" THEN {"install_requires", "entry_points"}
          ELSE {})

Restrict(f, S) == [k \in (DOMAIN f) \cap S |-> f[k]]

\* Distribution(attrs): known options are set, the others only warned about
Distribution(a, impl) ==
    [options  |-> Restrict(a, KnownOptions(impl)),
     warnings |-> (DOMAIN a) \ KnownOptions(impl)]

NoDist == [options |-> <<>>, warnings |-> {}]

NoResult == [kind |-> "none"]

Range(s) == {s[i] : i \in 1..Len(s)}

\* the executables an installation adds
Executables(d) ==
    Range(d.options["scripts"])
    \cup (IF "entry_points" \in DOMAIN d.options
          THEN Range(d.options["entry_points"]) ELSE {})

\* the requirements an installation enforces
Requires(d) ==
    IF "install_requires" \in DOMAIN d.options
    THEN d.options["install_requires"] ELSE <<>>

\* what a command that ends without error leaves behind
CommandResult(c, d) ==
    CASE c = "--version" -> [kind |-> "print", text |-> d.options["version"]]
      [] c = "sdist"     -> [kind    |-> "sdist",
                             pkginfo |-> Restrict(d.options, MetadataKeys)]
      [] c = "build"     -> [kind     |-> "build",
                             packages |-> d.options["packages"]]
      [] c = "install"   -> [kind        |-> "install",
                             packages    |-> d.options["packages"],
                             executables |-> Executables(d),
                             requires    |-> Requires(d)]

\* sdist, build and install look the declared packages up on disk
NeedsPackageDirs(c) == c \in {"sdist", "build", "install"}

(***************************************************************************)
(* The run                                                                 *)
(***************************************************************************)
Init ==
    /\ pc = "import"
    /\ argi = 1
    /\ attrs = <<>>
    /\ fh = "none"
    /\ exc = "none"
    /\ setupCalled = FALSE
    /\ dist = NoDist
    /\ result = NoResult
    /\ cwd \in Dirs
    /\ fs \in [Dirs -> Files \cup OtherFiles]
    /\ \A d \in Dirs : d # cwd => fs[d] \in OtherFiles
    /\ distutilsImpl \in Impls
    /\ argv \in Commands
    /\ pkgDirs \in BOOLEAN

Raise(e) ==
    /\ pc' = "error"
    /\ exc' = e

\* line 1: from distutils.core import setup
Import ==
    /\ pc = "import"
    /\ IF distutilsImpl = "absent"
       THEN Raise("ModuleNotFoundError")
       ELSE pc' = "args" /\ exc' = exc
    /\ UNCHANGED <<argi, attrs, fh, setupCalled, dist, result, env>>

\* a keyword argument that is a literal
EvalLiteral ==
    /\ pc = "args"
    /\ argi <= Len(KwOrder)
    /\ KwOrder[argi] # "long_description"
    /\ attrs' = attrs @@ (KwOrder[argi] :> Literal(KwOrder[argi]))
    /\ argi' = argi + 1
    /\ UNCHANGED <<pc, fh, exc, setupCalled, dist, result, env>>

\* try: open(...) except OSError: no long description
OpenReadme_caught ==
    /\ pc = "args"
    /\ argi <= Len(KwOrder)
    /\ KwOrder[argi] = "long_description"
    /\ fh = "none"
    /\ LET f == fs[ResolveDir(cwd)] IN
       IF OpenError(f) = "none"
       THEN fh' = "open" /\ UNCHANGED <<pc, exc, argi, attrs>>
       ELSE /\ attrs' = attrs @@ ("long_description" :> <<>>)
            /\ argi' = argi + 1
            /\ UNCHANGED <<pc, exc, fh>>
    /\ UNCHANGED <<setupCalled, dist, result, env>>

\* line 13: open('README.txt')
OpenReadme ==
    /\ pc = "args"
    /\ argi <= Len(KwOrder)
    /\ KwOrder[argi] = "long_description"
    /\ fh = "none"
    /\ LET f == fs[ResolveDir(cwd)] IN
       IF OpenError(f) = "none"
       THEN fh' = "open" /\ UNCHANGED <<pc, exc>>
       ELSE Raise(OpenError(f)) /\ fh' = fh
    /\ UNCHANGED <<argi, attrs, setupCalled, dist, result, env>>

\* line 13: .read(); the file object is dropped, never closed by the manifest
ReadReadme ==
    /\ pc = "args"
    /\ fh = "open"
    /\ LET b == fs[ResolveDir(cwd)].bytes IN
       IF Decodable(b)
       THEN /\ attrs' = attrs @@ ("long_description" :> ReadText(b))
            /\ argi' = argi + 1
            /\ fh' = "dropped"
            /\ UNCHANGED <<pc, exc>>
       ELSE /\ Raise("UnicodeDecodeError")
            /\ UNCHANGED <<attrs, argi, fh>>
    /\ UNCHANGED <<setupCalled, dist, result, env>>

\* setup() entered once the description would be next: it is read later
CallSetup_early ==
    /\ pc = "args"
    /\ argi <= Len(KwOrder)
    /\ KwOrder[argi] = "long_description"
    /\ pc' = "setup"
    /\ setupCalled' = TRUE
    /\ dist' = Distribution(attrs, distutilsImpl)
    /\ UNCHANGED <<argi, attrs, fh, exc, result, env>>

\* lines 3-15: all arguments evaluated, setup(**attrs) is entered
CallSetup ==
    /\ pc = "args"
    /\ argi > Len(KwOrder)
    /\ pc' = "setup"
    /\ setupCalled' = TRUE
    /\ dist' = Distribution(attrs, distutilsImpl)
    /\ UNCHANGED <<argi, attrs, fh, exc, result, env>>

\* setup() runs the command of the command line
RunCommand ==
    /\ pc = "setup"
    /\ IF NeedsPackageDirs(argv) /\ ~pkgDirs
       THEN Raise("DistutilsFileError") /\ result' = result
       ELSE /\ pc' = "done"
            /\ result' = CommandResult(argv, dist)
            /\ exc' = exc
    /\ UNCHANGED <<argi, attrs, fh, setupCalled, dist, env>>

Next ==
    \/ Import
    \/ EvalLiteral
    \/ OpenReadme
    \/ ReadReadme
    \/ CallSetup
    \/ RunCommand

Spec == Init /\ [][Next]_vars

TypeOK ==
    /\ pc \in {"import", "args", "setup", "done", "error"}
    /\ argi \in 1..(Len(KwOrder) + 1)
    /\ fh \in {"none", "open", "dropped"}
    /\ setupCalled \in BOOLEAN

(***************************************************************************)
(* Reading the declared strings                                            *)
(***************************************************************************)
Digits == {"0", "1", "2", "3", "4", "5", "6", "7", "8", "9"}

Letters == {"a", "b", "c", "d", "e", "f", "g", "h", "i", "j", "k", "l", "m",
            "n", "o", "p", "q", "r", "s", "t", "u", "v", "w", "x", "y", "z"}

\* the pieces of s between the occurrences of sep
RECURSIVE Split(_, _)
Split(s, sep) ==
    IF \A i \in 1..Len(s) : s[i] # sep THEN <<s>>
    ELSE LET i == CHOOSE j \in 1..Len(s) :
                      s[j] = sep /\ \A k \in 1..(j - 1) : s[k] # sep
         IN  <<SubSeq(s, 1, i - 1)>> \o Split(SubSeq(s, i + 1, Len(s)), sep)

\* a non-negative decimal integer: digits only, at least one
IsDecimal(s) == Len(s) > 0 /\ \A i \in 1..Len(s) : s[i] \in Digits

DigitVal(c) == CHOOSE n \in 0..9 :
                   <<"0", "1", "2", "3", "4", "5", "6", "7", "8", "9">>[n + 1] = c

RECURSIVE ToNat(_)
ToNat(s) ==
    IF s = <<>> THEN 0
    ELSE ToNat(SubSeq(s, 1, Len(s) - 1)) * 10 + DigitVal(s[Len(s)])

\* the length of the longest prefix of s made of characters of S
PrefixLen(s, S) ==
    CHOOSE n \in 0..Len(s) :
        /\ \A i \in 1..n : s[i] \in S
        /\ n = Len(s) \/ s[n + 1] \notin S

\* a requirement specifier is a project name, an operator and a version
ReqName(r) == SubSeq(r, 1, PrefixLen(r, Letters \cup Digits \cup {"-", "_", "."}))

ReqRest(r) == SubSeq(r, Len(ReqName(r)) + 1, Len(r))

ReqOp(r) == SubSeq(ReqRest(r), 1, PrefixLen(ReqRest(r), {"=", "<", ">", "!", "~"}))

ReqVer(r) == SubSeq(ReqRest(r), Len(ReqOp(r)) + 1, Len(ReqRest(r)))

\* name==N.N...: one fixed version, no range, no wildcard
Pinned(r) ==
    /\ Len(ReqName(r)) > 0
    /\ ReqOp(r) = <<"=", "=">>
    /\ \A i \in 1..Len(Split(ReqVer(r), ".")) : IsDecimal(Split(ReqVer(r), ".")[i])

\* the package a dotted package name is nested in; <<>> for a top-level one
Parent(p) ==
    LET dots == {i \in 1..Len(p) : p[i] = "."} IN
    IF dots = {} THEN <<>>
    ELSE SubSeq(p, 1, (CHOOSE i \in dots : \A j \in dots : j <= i) - 1)

IsPrefix(a, b) == Len(a) <= Len(b) /\ SubSeq(b, 1, Len(a)) = a

\* the text of a file: its bytes without every CR that an LF follows, the
\* other CRs turned into LF
KeptIdx(b) == {i \in 1..Len(b) : ~(b[i] = "CR" /\ i < Len(b) /\ b[i + 1] = "LF")}

NthKept(b, j) ==
    CHOOSE i \in KeptIdx(b) : Cardinality({k \in KeptIdx(b) : k <= i}) = j

TextOf(b) ==
    [j \in 1..Cardinality(KeptIdx(b)) |->
        IF b[NthKept(b, j)] = "CR" THEN "LF" ELSE b[NthKept(b, j)]]

Ended == pc \in {"done", "error"}

(***************************************************************************)
(* Properties                                                              *)
(***************************************************************************)
\* C1: the distribution setup() builds has the name 'sempler' and the version
\* '0.1.1', and that version is three dot-separated non-negative decimal
\* integers with no sign or suffix: major 0, minor 1, patch 1.
C1_NameAndSemVer ==
    setupCalled =>
        LET v == dist.options["version"]
            c == Split(v, ".")
        IN  /\ dist.options["name"] = <<"s", "e", "m", "p", "l", "e", "r">>
            /\ v = <<"0", ".", "1", ".", "1">>
            /\ Len(c) = 3
            /\ \A i \in 1..Len(c) : IsDecimal(c[i])
            /\ <<ToNat(c[1]), ToNat(c[2]), ToNat(c[3])>> = <<0, 1, 1>>
            /\ (result.kind = "print" => result.text = v)

C1_Witness ==
    /\ pc = "done"
    /\ argv = "--version"
    /\ result.kind = "print"
    /\ Len(Split(result.text, ".")) = 3

\* C2: the install_requires list passed to setup() has exactly three
\* requirements, numpy==1.18.3, networkx==2.2 and matplotlib==3.2.1, each
\* pinned with '==' to one version, none unpinned, ranged or duplicated.
C2_ThreePinnedRequirements ==
    "install_requires" \in DOMAIN attrs =>
        LET r == attrs["install_requires"] IN
        /\ Len(r) = 3
        /\ \A i \in 1..Len(r) : Pinned(r[i])
        /\ {<<ReqName(r[i]), ReqVer(r[i])>> : i \in 1..Len(r)} =
             { <<<<"n","u","m","p","y">>, <<"1",".","1","8",".","3">>>>,
               <<<<"n","e","t","w","o","r","k","x">>, <<"2",".","2">>>>,
               <<<<"m","a","t","p","l","o","t","l","i","b">>,
                 <<"3",".","2",".","1">>>> }
        /\ Cardinality({ReqName(r[i]) : i \in 1..Len(r)}) = Len(r)

C2_Witness ==
    /\ setupCalled
    /\ "install_requires" \in DOMAIN attrs
    /\ Len(attrs["install_requires"]) = 3

\* C3: the package list of the distribution is non-empty and is exactly the
\* main package 'sempler' and 'sempler.test'; every other entry has the main
\* package's name and a dot as prefix, and the parent of every nested entry
\* is itself in the list.
C3_PackagesNested ==
    setupCalled =>
        LET p    == dist.options["packages"]
            main == <<"s", "e", "m", "p", "l", "e", "r">>
        IN  /\ Len(p) > 0
            /\ Range(p) = {main, main \o <<".", "t", "e", "s", "t">>}
            /\ Cardinality(Range(p)) = Len(p)
            /\ \A q \in Range(p) : q # main => IsPrefix(main \o <<".">>, q)
            /\ \A q \in Range(p) : Parent(q) # <<>> => Parent(q) \in Range(p)
            /\ (result.kind \in {"build", "install"} => result.packages = p)

C3_Witness ==
    /\ pc = "done"
    /\ result.kind = "install"
    /\ \E q \in Range(result.packages) : Parent(q) # <<>>

\* C4: the scripts list passed to setup() is empty and no entry_points
\* argument is passed, so an installation adds no executable.
C4_NoScriptsNoEntryPoints ==
    /\ "scripts" \in DOMAIN attrs => attrs["scripts"] = <<>>
    /\ "entry_points" \notin DOMAIN attrs
    /\ setupCalled =>
          /\ "scripts" \in DOMAIN attrs
          /\ dist.options["scripts"] = <<>>
          /\ "entry_points" \notin DOMAIN dist.options
    /\ result.kind = "install" => result.executables = {}

C4_Witness ==
    /\ pc = "done"
    /\ result.kind = "install"
    /\ Len(result.packages) > 0

\* C5 as stated: the long_description passed to setup() is exactly the
\* content of README.txt in the current directory, and when that file exists
\* (the packaging tool and the package directories being in place) a run of
\* sdist ends in success with a source distribution carrying that content.
C5_ExactContentAndSdistSucceeds ==
    /\ setupCalled => attrs["long_description"] = fs[cwd].bytes
    /\ ( /\ fs[cwd].state # "missing"
         /\ distutilsImpl # "absent"
         /\ pkgDirs
         /\ argv = "sdist"
         /\ Ended )
       => /\ pc = "done"
          /\ result.kind = "sdist"
          /\ result.pkginfo["long_description"] = fs[cwd].bytes

\* C5, amended: the long_description passed to setup() is the whole content
\* of README.txt in the current directory as a text-mode read() returns it
\* (decoded, every CR LF and every lone CR turned into LF); when the file
\* exists, is readable and decodes, and distutils can be imported, the run
\* does not end before setup() is entered with that description; and a
\* source distribution the run builds carries it.
C5_TextContentReachesSdist ==
    /\ "long_description" \in DOMAIN attrs =>
          attrs["long_description"] = TextOf(fs[cwd].bytes)
    /\ setupCalled =>
          /\ "long_description" \in DOMAIN attrs
          /\ dist.options["long_description"] = TextOf(fs[cwd].bytes)
    /\ ( /\ fs[cwd].state = "ok"
         /\ Decodable(fs[cwd].bytes)
         /\ distutilsImpl # "absent"
         /\ Ended )
       => setupCalled
    /\ result.kind = "sdist" =>
          result.pkginfo["long_description"] = TextOf(fs[cwd].bytes)

C5_Witness ==
    /\ pc = "done"
    /\ result.kind = "sdist"
    /\ fs[cwd].bytes = <<"a", "CR">>
    /\ result.pkginfo["long_description"] = <<"a", "LF">>
    /\ \E d \in Dirs : d # cwd /\ fs[d].state = "missing"

\* the exceptions the interpreter and the packaging tool raise
EnvExceptions == {"ModuleNotFoundError", "FileNotFoundError", "PermissionError",
                  "UnicodeDecodeError", "DistutilsFileError"}

\* C6: every failure of a run is an exception raised by the environment, and
\* once raised it ends the run; when README.txt is missing or unreadable the
\* run can only end in that error, setup() is not entered, nothing is built
\* or installed, and no long_description is substituted.
C6_NoAuthoredErrorPath ==
    /\ exc # "none" => pc = "error" /\ exc \in EnvExceptions
    /\ pc = "error" => exc \in EnvExceptions
    /\ fs[cwd].state \in {"missing", "unreadable"} =>
          /\ pc # "done"
          /\ pc # "setup"
          /\ ~setupCalled
          /\ dist = NoDist
          /\ result = NoResult
          /\ "long_description" \notin DOMAIN attrs
          /\ argi <= Len(KwOrder) /\ KwOrder[argi] \in {KwOrder[i] : i \in 1..10}
          /\ "long_description" \notin {KwOrder[i] : i \in 1..(argi - 1)}
          /\ (pc = "error" /\ distutilsImpl # "absent") =>
                exc = OpenError(fs[cwd])
          /\ (pc = "error" /\ fs[cwd].state = "missing"
                /\ distutilsImpl # "absent") => exc = "FileNotFoundError"

C6_Witness ==
    /\ pc = "error"
    /\ exc = "FileNotFoundError"
    /\ fs[cwd].state = "missing"
    /\ argv = "install"
    /\ result = NoResult

\* C8: README.txt is opened and read before setup() is entered: whenever
\* setup() has been entered the read is over and its value is among the
\* arguments; a run whose open or read failed never enters setup() and
\* registers no metadata; and whatever the command, setup() is only entered
\* in runs where README.txt exists in the current directory.
C8_ReadBeforeSetup ==
    /\ setupCalled =>
          /\ fh = "dropped"
          /\ "long_description" \in DOMAIN attrs
          /\ fs[cwd].state = "ok"
    /\ fh # "dropped" => ~setupCalled /\ pc \in {"import", "args", "error"}
    /\ exc \in {"FileNotFoundError", "PermissionError", "UnicodeDecodeError"} =>
          /\ ~setupCalled
          /\ dist = NoDist
          /\ result = NoResult
    /\ pc \in {"setup", "done"} => setupCalled
    /\ ~setupCalled => dist = NoDist /\ result = NoResult

C8_Witness ==
    /\ pc = "error"
    /\ exc = "FileNotFoundError"
    /\ argv = "--version"
    /\ ~setupCalled
    /\ DOMAIN attrs = {KwOrder[i] : i \in 1..9}

\* C9: the declared requirements are enforced at install time: the setup()
\* that is called recognises install_requires, and an installation requires
\* the three pinned requirements.
C9_RequirementsEnforced ==
    /\ setupCalled =>
          /\ "install_requires" \notin dist.warnings
          /\ "install_requires" \in DOMAIN dist.options
    /\ result.kind = "install" =>
          /\ Len(result.requires) = 3
          /\ result.requires = attrs["install_requires"]

=============================================================================
